---- MODULE Spec2Model ----
(***************************************************************************)
(* A model of the zenith-task scheduler (zenith-task/src): the identifier  *)
(* allocator, the completion state and its handles, the global and thread- *)
(* local queues and maps, the worker loop and the executor facade          *)
(* (submit*, config, join_all_workers, drop).                              *)
(*                                                                         *)
(* Threads of the program are processes of the model: worker threads       *)
(* (tids 1..nthreads), submitting caller threads (Callers), one thread     *)
(* that reconfigures the pool (the admin) and threads that use handles     *)
(* (Users).  Every step is one access to shared state (a queue operation,  *)
(* a map operation under its lock, an atomic load or store).               *)
(***************************************************************************)
EXTENDS Integers, Sequences, FiniteSets, TLC

VARIABLES
    COUNTER,                \* task.rs:13  static COUNTER: AtomicU64
    thread_registry,        \* executor.rs:78  name -> ThreadInfo (the tid it joins)
    thread_local_states,    \* executor.rs:81  name -> Arc<ThreadLocalState> (by owner tid)
    global_queue,           \* executor.rs:80  SegQueue<QueuedTask>
    task_storage,           \* executor.rs:83  ids of the boxes in the global map
    task_complete_handles,  \* executor.rs:84  id -> completion state the callback captured
    local_queue,            \* executor.rs:71  per ThreadLocalState
    local_storage,          \* executor.rs:72  per ThreadLocalState
    local_handles,          \* executor.rs:73  per ThreadLocalState
    state,                  \* task.rs:85  TaskState per completion state
    result_lock,            \* task.rs:86  holder of TaskState.result's mutex
    parked,                 \* task.rs:88  threads blocked in condvar.wait
    nthreads,               \* number of worker threads spawned so far
    wname,                  \* executor.rs:404  OS thread name
    shutdown,               \* worker.rs:12  Arc<AtomicBool>
    wpc,                    \* position of each worker in WorkerThread::run
    wtask,                  \* the QueuedTask a worker holds after a pop
    wcb,                    \* the completion callback a worker removed
    writes,                 \* per completion state: how often set_result wrote its slot
    ran,                    \* per worker: closures run in the current iteration of its loop
    log,                    \* lib.rs:377  the shared ordered log: the records run, in order
    cpc,                    \* position of each caller in submit*
    creq,                   \* the submission a caller is making
    waker_registry,         \* async_task.rs:81  id -> the wakers registered for it
    woken,                  \* per user: how often its waker was invoked
    waits,                  \* per task: the handle its closure waits on (null: none)
    calls,                  \* per task: the name its closure calls submit_to with ("": none)
    issued,                 \* the identifiers TaskId::new returned, in order
    handles,                \* ids of the handles submit* has returned
    errors,                 \* the names submit_to returned "thread not found" for
    apc,                    \* position of the admin in config / join_all_workers
    areq,                   \* the admin's call: specs, drained entries, cursor
    joined,                 \* per tid: how many times JoinHandle::join returned
    prev,                   \* number of threads spawned before the last config
    upc,                    \* position of each user in wait / get / try_get
    ureq,                   \* the handle call a user is making
    uget                    \* what get / try_get handed to each user

vars == <<COUNTER, thread_registry, thread_local_states, global_queue,
          task_storage, task_complete_handles, local_queue, local_storage,
          local_handles, state, result_lock, parked, nthreads, wname,
          shutdown, wpc, wtask, wcb, log, writes, cpc, creq, waits, issued, handles,
          errors, apc, areq, joined, prev, upc, ureq, uget, waker_registry,
          woken, ran, calls>>

execVars == <<COUNTER, global_queue, task_storage, task_complete_handles,
              local_queue, local_storage, local_handles, state>>
poolVars == <<thread_registry, thread_local_states, nthreads, wname, shutdown,
              joined>>
workerVars == <<wpc, wtask, wcb, log, writes, ran>>
callerVars == <<cpc, creq, waits, calls, issued, handles, errors>>
adminVars == <<apc, areq, prev>>
userVars == <<upc, ureq, uget, result_lock, parked>>
asyncVars == <<waker_registry, woken>>

----------------------------------------------------------------------------
\* Option<T>: None is the empty sequence, Some(x) the one-element sequence.
None == <<>>
Some(x) == <<x>>

\* f with key k bound to v (HashMap::insert: an existing binding is replaced).
Insert(f, k, v) == [x \in DOMAIN f \cup {k} |-> IF x = k THEN v ELSE f[x]]
\* f without key k (HashMap::remove).
Remove(f, k) == [x \in DOMAIN f \ {k} |-> f[x]]
EmptyMap == [x \in {} |-> 0]

\* TaskId::INVALID is u64::MAX, which is -1 in 64-bit two's complement.
INVALID == -1

\* TaskId::new: COUNTER.fetch_add(1) returns the old value.  The u64 counter
\* wraps only after 2^64 allocations, beyond every bound of this model.
FetchAddStuck(c) == c
FetchAdd(c) == c + 1

\* The value the closure of task id produces (lib.rs:291: task i returns i * i).
Output(id) == id * id

\* TaskState::new (task.rs:92) and the state of a null handle (task.rs:174).
NewTaskStateCompleted == [completed |-> TRUE, result |-> None]
NewTaskState == [completed |-> FALSE, result |-> None]
NullTaskState == [completed |-> TRUE, result |-> None]

\* TaskState::completed
completed(s) == state[s].completed

\* QueuedTask::from and QueuedTask::ready_to_execute
QueuedTask(id, deps) == [id |-> id, dependencies |-> deps]
ReadyAny(task) ==
    task.dependencies = {} \/ \E s \in task.dependencies : completed(s)
ready_to_execute(task) == \A s \in task.dependencies : completed(s)

----------------------------------------------------------------------------
\* Bounds of the model.
MaxTasks == 1       \* submissions that allocate an identifier
MaxThreads == 3     \* worker threads spawned over a run
MaxErrors == 1      \* submissions that return "thread not found"

\* The thread specs TaskExecutor::new and config are called with, and the
\* names submit_to is called with.
SpecLists ==
    { << <<"main", 0>>, <<"worker", 1>> >>,
      << <<"worker", 2>> >>,
      << <<"main", 1>>, <<"main", 1>> >> }
ThreadNames == {"main", "worker", "worker_0", "ghost"}

\* spawn_threads' name of thread i of a spec (executor.rs:380): the bare name
\* when count == 1, name_i otherwise.
ThreadName(thread_name, count, i) ==
    IF count = 1 THEN thread_name ELSE thread_name \o "_" \o ToString(i)

\* The names spawn_threads' two loops produce, in spawn order.
RECURSIVE SpawnNames(_)
SpawnNames(thread_configs) ==
    IF thread_configs = <<>> THEN <<>>
    ELSE LET thread_name == Head(thread_configs)[1]
             count == Head(thread_configs)[2]
         IN  [i \in 1..count |-> ThreadName(thread_name, count, i - 1)]
                 \o SpawnNames(Tail(thread_configs))

\* The map after inserting names[j] -> base + j for j = 1..Len(names) in order.
InsertAll(f, names, base) ==
    [nm \in DOMAIN f \cup {names[j] : j \in 1..Len(names)} |->
        IF \E j \in 1..Len(names) : names[j] = nm
        THEN base + CHOOSE j \in 1..Len(names) :
                 names[j] = nm /\ \A k \in (j + 1)..Len(names) : names[k] # nm
        ELSE f[nm]]

\* A ThreadLocalState is freed when its worker has exited and no entry of
\* thread_local_states holds it (Arc): its queue and maps go with it.
Held(tls, pcs) ==
    {t \in DOMAIN pcs : pcs[t] # "exited" \/ \E nm \in DOMAIN tls : tls[nm] = t}
Reclaim(f, held, empty) == [t \in DOMAIN f |-> IF t \in held THEN f[t] ELSE empty]

\* The admin's record when it is in no call.
NoCall == [op |-> "", names |-> <<>>, pending |-> EmptyMap, cur |-> ""]

\* TaskExecutor::new(thread_configs): empty queues and maps, then spawn_threads.
\* The null handle's completion state (TaskResult::null) exists from the start.
InitExecutor(thread_configs) ==
    LET names == SpawnNames(thread_configs)
        n == Len(names)
    IN  /\ COUNTER = 0
        /\ thread_registry = InsertAll(EmptyMap, names, 0)
        /\ thread_local_states = InsertAll(EmptyMap, names, 0)
        /\ global_queue = <<>>
        /\ task_storage = {}
        /\ task_complete_handles = EmptyMap
        /\ local_queue = [t \in 1..n |-> <<>>]
        /\ local_storage = [t \in 1..n |-> {}]
        /\ local_handles = [t \in 1..n |-> EmptyMap]
        /\ state = [s \in {INVALID} |-> NullTaskState]
        /\ result_lock = [s \in {INVALID} |-> None]
        /\ parked = [s \in {INVALID} |-> {}]
        /\ nthreads = n
        /\ wname = [t \in 1..n |-> names[t]]
        /\ shutdown = [t \in 1..n |-> FALSE]
        /\ wpc = [t \in 1..n |-> "loop"]
        /\ wtask = [t \in 1..n |-> None]
        /\ wcb = [t \in 1..n |-> None]
        /\ log = <<>>
        /\ writes = EmptyMap
        /\ ran = [t \in 1..n |-> 0]
        /\ calls = EmptyMap
        /\ waker_registry = EmptyMap
        /\ issued = <<>>
        /\ waits = EmptyMap
        /\ handles = {}
        /\ errors = <<>>
        /\ apc = "idle"
        /\ areq = NoCall
        /\ joined = [t \in 1..n |-> 0]
        /\ prev = 0

----------------------------------------------------------------------------
\* WorkerThread::run, worker t (worker.rs:50-93).

\* thread_registry is write-locked for the whole drain loop of
\* join_all_workers (executor.rs:369-372).
RegistryWriteLocked == apc \in {"drain", "join"}

\* The closure of the task worker t holds is about to run.
Executing(t) == wpc[t] \in {"exec_local", "exec_global"}

\* worker.rs:51: the loop condition reads the shutdown flag; a set flag ends
\* the thread, which drops the worker's Arc<ThreadLocalState>.
WorkerLoop(t) ==
    /\ wpc[t] = "loop"
    /\ IF shutdown[t]
       THEN LET pcs == [wpc EXCEPT ![t] = "exited"]
                held == Held(thread_local_states, pcs)
            IN  /\ wpc' = pcs
                /\ local_queue' = Reclaim(local_queue, held, <<>>)
                /\ local_storage' = Reclaim(local_storage, held, {})
                /\ local_handles' = Reclaim(local_handles, held, EmptyMap)
       ELSE /\ wpc' = [wpc EXCEPT ![t] = "local"]
            /\ UNCHANGED <<local_queue, local_storage, local_handles>>
    /\ UNCHANGED <<COUNTER, global_queue, task_storage, task_complete_handles,
                   state, poolVars, wtask, wcb, log, ran, writes, callerVars, adminVars,
                   userVars, asyncVars>>

\* worker.rs:56: local_queue.pop(); an empty queue ends the while-let and the
\* worker goes on to the global tier with executed_local_task == false.
LocalPop(t) ==
    /\ wpc[t] = "local"
    /\ IF local_queue[t] = <<>>
       THEN /\ wpc' = [wpc EXCEPT ![t] = "global"]
            /\ UNCHANGED <<local_queue, wtask>>
       ELSE /\ wtask' = [wtask EXCEPT ![t] = Some(Head(local_queue[t]))]
            /\ local_queue' = [local_queue EXCEPT ![t] = Tail(@)]
            /\ wpc' = [wpc EXCEPT ![t] = "local_popped"]
    /\ UNCHANGED <<COUNTER, global_queue, task_storage, task_complete_handles,
                   local_storage, local_handles, state, poolVars, wcb, log, ran, writes,
                   callerVars, adminVars, userVars, asyncVars>>

\* worker.rs:57-63 and execute_local_task's removal (worker.rs:96): a ready
\* record has its box removed from the local map and the closure starts (an
\* absent box gives executed_local_task == false and the break at line 59);
\* a record that is not ready is pushed back and the while-let pops again.
LocalCheckToGlobal(t) ==
    /\ wpc[t] = "local_popped"
    /\ LET task == wtask[t][1]
       IN  IF ready_to_execute(task) /\ task.id \in local_storage[t]
           THEN /\ local_storage' = [local_storage EXCEPT ![t] = @ \ {task.id}]
                /\ wpc' = [wpc EXCEPT ![t] = "exec_local"]
                /\ UNCHANGED <<wtask, global_queue>>
           ELSE /\ global_queue' = Append(global_queue, task)
                /\ wtask' = [wtask EXCEPT ![t] = None]
                /\ wpc' = [wpc EXCEPT ![t] = "local"]
                /\ UNCHANGED local_storage
    /\ UNCHANGED <<COUNTER, task_storage, task_complete_handles, local_queue,
                   local_handles, state, poolVars, wcb, log, ran, writes,
                   callerVars, adminVars, userVars, asyncVars>>
LocalCheck(t) ==
    /\ wpc[t] = "local_popped"
    /\ LET task == wtask[t][1]
       IN  IF ready_to_execute(task)
           THEN IF task.id \in local_storage[t]
                THEN /\ local_storage' = [local_storage EXCEPT ![t] = @ \ {task.id}]
                     /\ wpc' = [wpc EXCEPT ![t] = "exec_local"]
                     /\ UNCHANGED <<wtask, local_queue>>
                ELSE /\ wpc' = [wpc EXCEPT ![t] = "global"]
                     /\ wtask' = [wtask EXCEPT ![t] = None]
                     /\ UNCHANGED <<local_storage, local_queue>>
           ELSE /\ local_queue' = [local_queue EXCEPT ![t] = Append(@, task)]
                /\ wtask' = [wtask EXCEPT ![t] = None]
                /\ wpc' = [wpc EXCEPT ![t] = "local"]
                /\ UNCHANGED local_storage
    /\ UNCHANGED <<COUNTER, global_queue, task_storage, task_complete_handles,
                   local_handles, state, poolVars, wcb, log, ran, writes, callerVars,
                   adminVars, userVars, asyncVars>>

\* worker.rs:74: global_queue.pop(); an empty queue ends the loop, the worker
\* sleeps (worker.rs:90) and starts the next iteration.
GlobalPop(t) ==
    /\ wpc[t] = "global"
    /\ IF global_queue = <<>>
       THEN /\ wpc' = [wpc EXCEPT ![t] = "loop"]
            /\ UNCHANGED <<global_queue, wtask>>
       ELSE /\ wtask' = [wtask EXCEPT ![t] = Some(Head(global_queue))]
            /\ global_queue' = Tail(global_queue)
            /\ wpc' = [wpc EXCEPT ![t] = "global_popped"]
    /\ UNCHANGED <<COUNTER, task_storage, task_complete_handles, local_queue,
                   local_storage, local_handles, state, poolVars, wcb, log, ran, writes,
                   callerVars, adminVars, userVars, asyncVars>>

\* worker.rs:75-81 and execute_task's removal (worker.rs:116).
GlobalCheckRequeue(t) ==
    /\ wpc[t] = "global_popped"
    /\ LET task == wtask[t][1]
       IN  /\ global_queue' = Append(global_queue, task)
           /\ IF ready_to_execute(task) /\ task.id \in task_storage
              THEN wpc' = [wpc EXCEPT ![t] = "exec_global"] /\ UNCHANGED wtask
              ELSE /\ wpc' = [wpc EXCEPT ![t] = "global"]
                   /\ wtask' = [wtask EXCEPT ![t] = None]
    /\ UNCHANGED <<COUNTER, task_storage, task_complete_handles, local_queue,
                   local_storage, local_handles, state, poolVars, wcb, log, ran,
                   writes, callerVars, adminVars, userVars, asyncVars>>
GlobalCheck(t) ==
    /\ wpc[t] = "global_popped"
    /\ LET task == wtask[t][1]
       IN  IF ready_to_execute(task)
           THEN IF task.id \in task_storage
                THEN /\ task_storage' = task_storage \ {task.id}
                     /\ wpc' = [wpc EXCEPT ![t] = "exec_global"]
                     /\ UNCHANGED <<wtask, global_queue>>
                ELSE /\ wpc' = [wpc EXCEPT ![t] = "loop"]
                     /\ wtask' = [wtask EXCEPT ![t] = None]
                     /\ UNCHANGED <<task_storage, global_queue>>
           ELSE /\ global_queue' = Append(global_queue, task)
                /\ wtask' = [wtask EXCEPT ![t] = None]
                /\ wpc' = [wpc EXCEPT ![t] = "global"]
                /\ UNCHANGED task_storage
    /\ UNCHANGED <<COUNTER, task_complete_handles, local_queue, local_storage,
                   local_handles, state, poolVars, wcb, log, ran, writes, callerVars,
                   adminVars, userVars, asyncVars>>

\* worker.rs:100-103: task.execute() runs the closure to its end (it appends
\* its label to the shared log), then the completion callback is removed
\* from the local map; without a callback the task is done.  A closure that
\* waits on a handle first finds the handle's flag true (task.rs:115); a
\* closure that calls submit_to first takes the registry's read lock
\* (executor.rs:147), which it cannot get while the write lock is held, and
\* its call with a name that is not registered returns Err and changes nothing.
ExecuteLocal(t) ==
    /\ wpc[t] = "exec_local"
    /\ completed(waits[wtask[t][1].id])
    /\ calls[wtask[t][1].id] # "" => ~RegistryWriteLocked
    /\ LET id == wtask[t][1].id
       IN  /\ log' = Append(log, wtask[t][1])
           /\ ran' = [ran EXCEPT ![t] = @ + 1]
           /\ IF id \in DOMAIN local_handles[t]
              THEN /\ wcb' = [wcb EXCEPT ![t] = Some(local_handles[t][id])]
                   /\ local_handles' = [local_handles EXCEPT ![t] = Remove(@, id)]
                   /\ wpc' = [wpc EXCEPT ![t] = "set_result"]
                   /\ UNCHANGED wtask
              ELSE /\ wpc' = [wpc EXCEPT ![t] = "wake"]
                   /\ UNCHANGED <<wtask, wcb, local_handles>>
    /\ UNCHANGED <<COUNTER, global_queue, task_storage, task_complete_handles,
                   local_queue, local_storage, state, poolVars, writes,
                   callerVars, adminVars, userVars, asyncVars>>

\* worker.rs:120-123: the same with the global map.
ExecuteGlobal(t) ==
    /\ wpc[t] = "exec_global"
    /\ completed(waits[wtask[t][1].id])
    /\ calls[wtask[t][1].id] # "" => ~RegistryWriteLocked
    /\ LET id == wtask[t][1].id
       IN  /\ log' = Append(log, wtask[t][1])
           /\ ran' = [ran EXCEPT ![t] = @ + 1]
           /\ IF id \in DOMAIN task_complete_handles
              THEN /\ wcb' = [wcb EXCEPT ![t] = Some(task_complete_handles[id])]
                   /\ task_complete_handles' = Remove(task_complete_handles, id)
                   /\ wpc' = [wpc EXCEPT ![t] = "set_result"]
                   /\ UNCHANGED wtask
              ELSE /\ wpc' = [wpc EXCEPT ![t] = "wake"]
                   /\ UNCHANGED <<wtask, wcb, task_complete_handles>>
    /\ UNCHANGED <<COUNTER, global_queue, task_storage, local_queue,
                   local_storage, local_handles, state, poolVars, writes,
                   callerVars, adminVars, userVars, asyncVars>>

\* How often the slot of completion state s has been written.
WriteCount(s) == IF s \in DOMAIN writes THEN writes[s] ELSE 0

\* TaskState::set_result, first statement (task.rs:101): lock the result
\* mutex, write the slot, unlock.
SetResult(t) ==
    /\ wpc[t] = "set_result"
    /\ LET s == wcb[t][1]
       IN  /\ result_lock[s] = None
           /\ state' = [state EXCEPT ![s].result = Some(Output(wtask[t][1].id))]
           /\ writes' = Insert(writes, s, WriteCount(s) + 1)
    /\ wpc' = [wpc EXCEPT ![t] = "set_completed"]
    /\ UNCHANGED <<COUNTER, global_queue, task_storage, task_complete_handles,
                   local_queue, local_storage, local_handles, poolVars, wtask,
                   wcb, log, ran, callerVars, adminVars, userVars, asyncVars>>

\* TaskState::set_completed, first statement (task.rs:110): the flag is set.
SetCompleted(t) ==
    /\ wpc[t] = "set_completed"
    /\ state' = [state EXCEPT ![wcb[t][1]].completed = TRUE]
    /\ wpc' = [wpc EXCEPT ![t] = "notify"]
    /\ UNCHANGED <<COUNTER, global_queue, task_storage, task_complete_handles,
                   local_queue, local_storage, local_handles, poolVars, wtask,
                   wcb, log, ran, writes, callerVars, adminVars, userVars,
                   asyncVars>>

\* TaskState::set_completed, second statement (task.rs:111):
\* condvar.notify_all() wakes every thread parked on the condition variable;
\* each then has to take the mutex again.
NotifyAll(t) ==
    /\ wpc[t] = "notify"
    /\ LET s == wcb[t][1]
       IN  /\ parked' = [parked EXCEPT ![s] = {}]
           /\ upc' = [u \in DOMAIN upc |->
                         IF u \in parked[s] THEN "lock" ELSE upc[u]]
    /\ wpc' = [x \in DOMAIN wpc |->
                  IF x = t THEN "wake"
                  ELSE IF wpc[x] = "wait_parked" /\ waits[wtask[x][1].id] = wcb[t][1]
                       THEN "wait_lock"
                       ELSE wpc[x]]
    /\ wcb' = [wcb EXCEPT ![t] = None]
    /\ UNCHANGED <<execVars, poolVars, wtask, log, ran, writes, callerVars, adminVars, ureq,
                   uget, result_lock, asyncVars>>

\* WakerRegistry::wake (worker.rs:108, 128; async_task.rs:96-103): under the
\* registry's write lock the identifier's entry is removed and every waker in
\* it is invoked.  The task was executed (worker.rs:109, 129), so the worker
\* neither steals nor sleeps: the iteration ends and the next one starts.
Wakers(registry, id) == IF id \in DOMAIN registry THEN registry[id] ELSE <<>>
Count(u, wakers) == Cardinality({i \in 1..Len(wakers) : wakers[i] = u})
RemoveWakersKeep(registry, id) == registry
RemoveWakers(registry, id) == Remove(registry, id)

WakeDrain(t) ==
    /\ wpc[t] = "wake"
    /\ LET id == wtask[t][1].id
       IN  /\ waker_registry' = RemoveWakers(waker_registry, id)
           /\ woken' = [u \in DOMAIN woken |->
                           woken[u] + Count(u, Wakers(waker_registry, id))]
    /\ wpc' = [wpc EXCEPT ![t] = "local"]
    /\ wtask' = [wtask EXCEPT ![t] = None]
    /\ UNCHANGED <<execVars, poolVars, wcb, log, ran, writes, callerVars,
                   adminVars, userVars>>
Wake(t) ==
    /\ wpc[t] = "wake"
    /\ LET id == wtask[t][1].id
       IN  /\ waker_registry' = RemoveWakers(waker_registry, id)
           /\ woken' = [u \in DOMAIN woken |->
                           woken[u] + Count(u, Wakers(waker_registry, id))]
    /\ wpc' = [wpc EXCEPT ![t] = "loop"]
    /\ wtask' = [wtask EXCEPT ![t] = None]
    /\ ran' = [ran EXCEPT ![t] = 0]
    /\ UNCHANGED <<execVars, poolVars, wcb, log, writes, callerVars, adminVars,
                   userVars>>

\* A closure that calls wait() on a handle whose flag is false
\* (task.rs:115-119): the worker goes on to lock the result mutex; the frame
\* it returns to is kept beside the record.
ClosureWait(t) ==
    /\ Executing(t)
    /\ ~completed(waits[wtask[t][1].id])
    /\ wtask' = [wtask EXCEPT ![t] = <<wtask[t][1], wpc[t]>>]
    /\ wpc' = [wpc EXCEPT ![t] = "wait_lock"]
    /\ UNCHANGED <<execVars, poolVars, wcb, log, ran, writes, callerVars, adminVars,
                   userVars, asyncVars>>

\* TaskState::wait in the closure, result.lock() (task.rs:119).
ClosureLock(t) ==
    /\ wpc[t] = "wait_lock"
    /\ LET s == waits[wtask[t][1].id]
       IN  /\ result_lock[s] = None
           /\ result_lock' = [result_lock EXCEPT ![s] = Some(t)]
    /\ wpc' = [wpc EXCEPT ![t] = "wait_recheck"]
    /\ UNCHANGED <<execVars, poolVars, wtask, wcb, log, ran, writes, callerVars,
                   adminVars, upc, ureq, uget, parked, asyncVars>>

\* TaskState::wait in the closure, the loop's load of the flag (task.rs:120):
\* a true flag returns to the closure, a false one parks the worker on the
\* condition variable (task.rs:121), which releases the mutex.
ClosureRecheck(t) ==
    /\ wpc[t] = "wait_recheck"
    /\ LET s == waits[wtask[t][1].id]
       IN  IF completed(s)
           THEN /\ result_lock' = [result_lock EXCEPT ![s] = None]
                /\ wpc' = [wpc EXCEPT ![t] = wtask[t][2]]
                /\ wtask' = [wtask EXCEPT ![t] = Some(wtask[t][1])]
           ELSE /\ wpc' = [wpc EXCEPT ![t] = "wait_park"]
                /\ UNCHANGED <<result_lock, wtask>>
    /\ UNCHANGED <<execVars, poolVars, wcb, log, ran, writes, callerVars, adminVars,
                   upc, ureq, uget, parked, asyncVars>>

ClosurePark(t) ==
    /\ wpc[t] = "wait_park"
    /\ result_lock' = [result_lock EXCEPT ![waits[wtask[t][1].id]] = None]
    /\ wpc' = [wpc EXCEPT ![t] = "wait_parked"]
    /\ UNCHANGED <<execVars, poolVars, wtask, wcb, log, ran, writes, callerVars,
                   adminVars, upc, ureq, uget, parked, asyncVars>>

Closure(t) ==
    \/ ClosureWait(t)
    \/ ClosureLock(t)
    \/ ClosureRecheck(t)
    \/ ClosurePark(t)

Worker(t) ==
    \/ WorkerLoop(t)
    \/ LocalPop(t)
    \/ LocalCheck(t)
    \/ GlobalPop(t)
    \/ GlobalCheck(t)
    \/ ExecuteLocal(t)
    \/ ExecuteGlobal(t)
    \/ SetResult(t)
    \/ SetCompleted(t)
    \/ NotifyAll(t)
    \/ Wake(t)

----------------------------------------------------------------------------
\* The submission API, caller c (executor.rs:122-259).

\* The dependency lists a caller can pass: any of the handles submit* has
\* returned, or a null handle.
DepListsAny == SUBSET (handles \cup {COUNTER})
DepLists == SUBSET handles \cup {{INVALID}}

\* register_task's global branch (executor.rs:251-255): the box and the
\* completion callback, which captures the new completion state.
CallbackOfOther(id) == IF id = 0 THEN id ELSE id - 1
CallbackOf(id) == id

\* submit / submit_after up to the push (executor.rs:127-131, 179-183):
\* BoxedTask::new allocates the identifier, register_task stores the box and
\* the callback in the global maps.
SubmitRegisterTask(c, deps, w, thread_name, maxTasks) ==
    /\ cpc[c] = "idle"
    /\ apc # "dropped"
    /\ COUNTER < maxTasks
    /\ LET id == COUNTER
       IN  /\ COUNTER' = FetchAdd(COUNTER)
           /\ issued' = Append(issued, id)
           /\ state' = Insert(state, id, NewTaskState)
           /\ result_lock' = Insert(result_lock, id, None)
           /\ parked' = Insert(parked, id, {})
           /\ task_storage' = task_storage \cup {id}
           /\ task_complete_handles' =
                  Insert(task_complete_handles, id, CallbackOf(id))
           /\ waits' = Insert(waits, id, w)
           /\ calls' = Insert(calls, id, thread_name)
           /\ creq' = [creq EXCEPT ![c] =
                          [id |-> id, thread_name |-> "", dependencies |-> deps,
                           waits |-> w, tid |-> 0]]
           /\ cpc' = [cpc EXCEPT ![c] = "push_global"]
    /\ UNCHANGED <<global_queue, local_queue, local_storage, local_handles,
                   poolVars, workerVars, handles, errors, adminVars, upc, ureq,
                   uget, asyncVars>>

\* submit / submit_after of a closure that calls submit_to on no thread.
SubmitRegisterClosure(c, deps, w, maxTasks) ==
    SubmitRegisterTask(c, deps, w, "", maxTasks)

\* submit / submit_after of a closure that waits on no handle.
SubmitRegister(c, deps, maxTasks) ==
    SubmitRegisterClosure(c, deps, INVALID, maxTasks)

\* submit / submit_after, the push and the return (executor.rs:133, 189).
SubmitPush(c) ==
    /\ cpc[c] = "push_global"
    /\ global_queue' =
           Append(global_queue, QueuedTask(creq[c].id, creq[c].dependencies))
    /\ handles' = handles \cup {creq[c].id}
    /\ cpc' = [cpc EXCEPT ![c] = "idle"]
    /\ UNCHANGED <<COUNTER, task_storage, task_complete_handles, local_queue,
                   local_storage, local_handles, state, poolVars, workerVars,
                   creq, waits, calls, issued, errors, adminVars, userVars,
                   asyncVars>>

\* submit_to / submit_to_after, the registry check (executor.rs:147, 204):
\* an unknown name returns Err and nothing else happens.
ContainsKeyAlways(registry, thread_name) == TRUE
ContainsKey(registry, thread_name) == thread_name \in DOMAIN registry

SubmitToCheckClosure(c, thread_name, deps, w, maxTasks) ==
    /\ cpc[c] = "idle"
    /\ apc # "dropped"
    /\ COUNTER < maxTasks
    /\ Len(errors) < MaxErrors
    /\ ~RegistryWriteLocked
    /\ IF ContainsKey(thread_registry, thread_name)
       THEN /\ creq' = [creq EXCEPT ![c] =
                  [id |-> INVALID, thread_name |-> thread_name,
                   dependencies |-> deps, waits |-> w,
                   tid |-> IF thread_name \in DOMAIN thread_registry
                           THEN thread_registry[thread_name] ELSE 0]]
            /\ cpc' = [cpc EXCEPT ![c] = "register"]
            /\ UNCHANGED errors
       ELSE /\ errors' = Append(errors, thread_name)
            /\ UNCHANGED <<cpc, creq>>
    /\ UNCHANGED <<execVars, poolVars, workerVars, waits, calls, issued, handles,
                   adminVars, userVars, asyncVars>>

\* submit_to / submit_to_after of a closure that waits on no handle.
SubmitToCheck(c, thread_name, deps, maxTasks) ==
    SubmitToCheckClosure(c, thread_name, deps, INVALID, maxTasks)

\* submit_to / submit_to_after, BoxedTask::new and register_task's dedicated
\* branch (executor.rs:151-154, 238-249): the expect() panics when the name
\* has no thread-local state.
SubmitToRegister(c) ==
    /\ cpc[c] = "register"
    /\ LET id == COUNTER
           thread_name == creq[c].thread_name
       IN  /\ COUNTER' = FetchAdd(COUNTER)
           /\ issued' = Append(issued, id)
           /\ IF thread_name \in DOMAIN thread_local_states
              THEN LET t == thread_local_states[thread_name]
                   IN  /\ state' = Insert(state, id, NewTaskState)
                       /\ result_lock' = Insert(result_lock, id, None)
                       /\ parked' = Insert(parked, id, {})
                       /\ local_storage' = [local_storage EXCEPT ![t] = @ \cup {id}]
                       /\ local_handles' =
                              [local_handles EXCEPT ![t] = Insert(@, id, CallbackOf(id))]
                       /\ waits' = Insert(waits, id, creq[c].waits)
                       /\ calls' = Insert(calls, id, "")
                       /\ creq' = [creq EXCEPT ![c].id = id]
                       /\ cpc' = [cpc EXCEPT ![c] = "push_local"]
              ELSE /\ cpc' = [cpc EXCEPT ![c] = "panicked"]
                   /\ UNCHANGED <<state, result_lock, parked, local_storage,
                                  local_handles, creq, waits, calls>>
    /\ UNCHANGED <<global_queue, task_storage, task_complete_handles,
                   local_queue, poolVars, workerVars, handles, errors,
                   adminVars, upc, ureq, uget, asyncVars>>

\* submit_to / submit_to_after, the push and the return (executor.rs:158-167,
\* 217-231): unreachable!() panics when the name has no thread-local state.
SubmitToPushFront(c) ==
    /\ cpc[c] = "push_local"
    /\ LET thread_name == creq[c].thread_name
       IN  IF thread_name \in DOMAIN thread_local_states
           THEN /\ local_queue' =
                       [local_queue EXCEPT ![thread_local_states[thread_name]] =
                           <<QueuedTask(creq[c].id, creq[c].dependencies)>> \o @]
                /\ handles' = handles \cup {creq[c].id}
                /\ cpc' = [cpc EXCEPT ![c] = "idle"]
           ELSE /\ cpc' = [cpc EXCEPT ![c] = "panicked"]
                /\ UNCHANGED <<local_queue, handles>>
    /\ UNCHANGED <<COUNTER, global_queue, task_storage, task_complete_handles,
                   local_storage, local_handles, state, poolVars, workerVars,
                   creq, waits, calls, issued, errors, adminVars, userVars,
                   asyncVars>>
SubmitToPush(c) ==
    /\ cpc[c] = "push_local"
    /\ LET thread_name == creq[c].thread_name
       IN  IF thread_name \in DOMAIN thread_local_states
           THEN /\ local_queue' =
                       [local_queue EXCEPT ![thread_local_states[thread_name]] =
                           Append(@, QueuedTask(creq[c].id, creq[c].dependencies))]
                /\ handles' = handles \cup {creq[c].id}
                /\ cpc' = [cpc EXCEPT ![c] = "idle"]
           ELSE /\ cpc' = [cpc EXCEPT ![c] = "panicked"]
                /\ UNCHANGED <<local_queue, handles>>
    /\ UNCHANGED <<COUNTER, global_queue, task_storage, task_complete_handles,
                   local_storage, local_handles, state, poolVars, workerVars,
                   creq, waits, calls, issued, errors, adminVars, userVars,
                   asyncVars>>

----------------------------------------------------------------------------
\* config, join_all_workers and Drop, the admin thread (executor.rs:363-419).

\* What the admin does once the thread-local states are cleared.
AfterClear(req) ==
    IF req.op = "drop" THEN "dropped"
    ELSE IF req.op = "config" /\ req.names # <<>> THEN "spawn_state"
    ELSE "idle"

\* join_all_workers, thread_registry.write().drain() (executor.rs:369): the
\* write lock is taken and every entry leaves the map; an empty registry
\* ends the loop at once.
JoinBegin(op, thread_configs, maxThreads) ==
    /\ apc = "idle"
    /\ \A c \in DOMAIN cpc : op = "drop" => cpc[c] \in {"idle", "panicked"}
    /\ nthreads + Len(SpawnNames(thread_configs)) <= maxThreads
    /\ areq' = [op |-> op, names |-> SpawnNames(thread_configs),
                pending |-> thread_registry, cur |-> ""]
    /\ thread_registry' = EmptyMap
    /\ prev' = IF op = "config" THEN nthreads ELSE prev
    /\ apc' = IF DOMAIN thread_registry = {} THEN "clear" ELSE "drain"
    /\ UNCHANGED <<execVars, thread_local_states, nthreads, wname, shutdown,
                   joined, workerVars, callerVars, userVars, asyncVars>>

\* ThreadInfo::request_shutdown for the next drained entry (executor.rs:370);
\* the map's iteration order is arbitrary.
RequestShutdown ==
    /\ apc = "drain"
    /\ \E nm \in DOMAIN areq.pending :
           /\ shutdown' = [shutdown EXCEPT ![areq.pending[nm]] = TRUE]
           /\ areq' = [areq EXCEPT !.cur = nm]
    /\ apc' = "join"
    /\ UNCHANGED <<execVars, thread_registry, thread_local_states, nthreads,
                   wname, joined, workerVars, callerVars, userVars,
                   prev, asyncVars>>

\* ThreadInfo::join (executor.rs:371): returns once the thread has ended;
\* after the last entry the write lock is released.
Join ==
    /\ apc = "join"
    /\ LET t == areq.pending[areq.cur]
           rest == Remove(areq.pending, areq.cur)
       IN  /\ wpc[t] = "exited"
           /\ joined' = [joined EXCEPT ![t] = @ + 1]
           /\ areq' = [areq EXCEPT !.pending = rest, !.cur = ""]
           /\ apc' = IF DOMAIN rest = {} THEN "clear" ELSE "drain"
    /\ UNCHANGED <<execVars, thread_registry, thread_local_states, nthreads,
                   wname, shutdown, workerVars, callerVars, userVars,
                   prev, asyncVars>>

\* thread_local_states.write().clear() and waker_registry.clear_all()
\* (executor.rs:373-374); join_all_workers returns, and config goes on to spawn_threads.
ClearStates ==
    /\ apc = "clear"
    /\ thread_local_states' = EmptyMap
    /\ waker_registry' = EmptyMap
    /\ LET held == Held(EmptyMap, wpc)
       IN  /\ local_queue' = Reclaim(local_queue, held, <<>>)
           /\ local_storage' = Reclaim(local_storage, held, {})
           /\ local_handles' = Reclaim(local_handles, held, EmptyMap)
    /\ apc' = AfterClear(areq)
    /\ areq' = IF AfterClear(areq) = "spawn_state" THEN areq ELSE NoCall
    /\ UNCHANGED <<COUNTER, global_queue, task_storage, task_complete_handles,
                   state, thread_registry, nthreads, wname, shutdown, joined,
                   workerVars, callerVars, userVars,
                   prev, woken>>

\* spawn_threads, the new ThreadLocalState and its insertion under the
\* thread's name (executor.rs:380-389).
SpawnState ==
    /\ apc = "spawn_state"
    /\ LET name == Head(areq.names)
           t == nthreads + 1
       IN  /\ nthreads' = t
           /\ thread_local_states' = Insert(thread_local_states, name, t)
           /\ wname' = Insert(wname, t, name)
           /\ shutdown' = Insert(shutdown, t, FALSE)
           /\ joined' = Insert(joined, t, 0)
           /\ wpc' = Insert(wpc, t, "new")
           /\ wtask' = Insert(wtask, t, None)
           /\ wcb' = Insert(wcb, t, None)
           /\ ran' = Insert(ran, t, 0)
           /\ LET held == Held(thread_local_states', wpc')
              IN  /\ local_queue' = Reclaim(Insert(local_queue, t, <<>>), held, <<>>)
                  /\ local_storage' = Reclaim(Insert(local_storage, t, {}), held, {})
                  /\ local_handles' =
                         Reclaim(Insert(local_handles, t, EmptyMap), held, EmptyMap)
    /\ apc' = "spawn_thread"
    /\ UNCHANGED <<COUNTER, global_queue, task_storage, task_complete_handles,
                   state, thread_registry, log, writes, callerVars, areq, userVars,
                   prev, asyncVars>>

\* spawn_threads, the thread is spawned and its ThreadInfo inserted under
\* its name (executor.rs:391-409); an entry already under that name is
\* replaced and its JoinHandle dropped, which detaches that thread.
RegistryInsert(registry, name, t) == Insert(registry, name, t)

SpawnThread ==
    /\ apc = "spawn_thread"
    /\ LET name == Head(areq.names)
           t == nthreads
       IN  /\ wpc' = [wpc EXCEPT ![t] = "loop"]
           /\ thread_registry' = RegistryInsert(thread_registry, name, t)
    /\ areq' = IF Tail(areq.names) = <<>> THEN NoCall
               ELSE [areq EXCEPT !.names = Tail(@)]
    /\ apc' = IF Tail(areq.names) = <<>> THEN "idle" ELSE "spawn_state"
    /\ UNCHANGED <<execVars, thread_local_states, nthreads, wname, shutdown,
                   joined, wtask, wcb, log, ran, writes, callerVars, userVars,
                   prev, asyncVars>>

Admin(maxThreads) ==
    \/ \E thread_configs \in SpecLists : JoinBegin("config", thread_configs, maxThreads)
    \/ JoinBegin("join_all_workers", <<>>, maxThreads)
    \/ JoinBegin("drop", <<>>, maxThreads)
    \/ RequestShutdown
    \/ Join
    \/ ClearStates
    \/ SpawnState
    \/ SpawnThread

----------------------------------------------------------------------------
\* The handle API, user u on the completion state s (task.rs:114-123,
\* 194-233).  A user holds a handle or a clone of it (task.rs:132).

\* TaskState::wait, the first load of the flag (task.rs:115): a completed
\* task returns at once.  get starts with wait (task.rs:223).
WaitEnter(u, s, op) ==
    /\ upc[u] = "idle"
    /\ s \in handles
    /\ ureq' = [ureq EXCEPT ![u] = [op |-> op, s |-> s, ret |-> None]]
    /\ upc' = [upc EXCEPT ![u] =
                  IF completed(s)
                  THEN (IF op = "get" THEN "take" ELSE "idle")
                  ELSE "lock"]
    /\ UNCHANGED <<execVars, poolVars, workerVars, callerVars, adminVars,
                   uget, result_lock, parked, asyncVars>>

\* TaskState::wait, result.lock() (task.rs:119), and the lock taken again
\* by condvar.wait after a wake-up.
WaitLock(u) ==
    /\ upc[u] = "lock"
    /\ result_lock[ureq[u].s] = None
    /\ result_lock' = [result_lock EXCEPT ![ureq[u].s] = Some(u)]
    /\ upc' = [upc EXCEPT ![u] = "recheck"]
    /\ UNCHANGED <<execVars, poolVars, workerVars, callerVars, adminVars,
                   ureq, uget, parked, asyncVars>>

\* TaskState::wait, the loop's load of the flag (task.rs:120): a true flag
\* ends the loop and the guard is dropped on return.
WaitRecheck(u) ==
    /\ upc[u] = "recheck"
    /\ IF completed(ureq[u].s)
       THEN /\ result_lock' = [result_lock EXCEPT ![ureq[u].s] = None]
            /\ upc' = [upc EXCEPT ![u] =
                          IF ureq[u].op = "get" THEN "take" ELSE "idle"]
       ELSE /\ upc' = [upc EXCEPT ![u] = "park"]
            /\ UNCHANGED result_lock
    /\ UNCHANGED <<execVars, poolVars, workerVars, callerVars, adminVars,
                   ureq, uget, parked, asyncVars>>

\* TaskState::wait, condvar.wait (task.rs:121): the thread is queued on the
\* condition variable and the mutex released, atomically.
WaitPark(u) ==
    /\ upc[u] = "park"
    /\ parked' = [parked EXCEPT ![ureq[u].s] = @ \cup {u}]
    /\ result_lock' = [result_lock EXCEPT ![ureq[u].s] = None]
    /\ upc' = [upc EXCEPT ![u] = "parked"]
    /\ UNCHANGED <<execVars, poolVars, workerVars, callerVars, adminVars,
                   ureq, uget, asyncVars>>

\* Option::take on the result slot.
TakeKeep(slot) == slot
Take(slot) == None

\* get after wait (task.rs:225-232): the value is taken out of the slot
\* under the mutex; an empty slot fails the expect().
Get(u) ==
    /\ upc[u] = "take"
    /\ LET s == ureq[u].s
       IN  /\ result_lock[s] = None
           /\ IF ~completed(s) \/ state[s].result = None
              THEN /\ upc' = [upc EXCEPT ![u] = "panicked"]
                   /\ UNCHANGED <<state, uget>>
              ELSE /\ uget' = [uget EXCEPT ![u] = Append(@, <<s, state[s].result[1]>>)]
                   /\ state' = [state EXCEPT ![s].result = Take(@)]
                   /\ upc' = [upc EXCEPT ![u] = "idle"]
    /\ UNCHANGED <<COUNTER, global_queue, task_storage, task_complete_handles,
                   local_queue, local_storage, local_handles, poolVars,
                   workerVars, callerVars, adminVars, ureq, result_lock, parked,
                   asyncVars>>

\* try_get, the load of the flag (task.rs:206): a false flag returns None
\* at once (task.rs:215).
TryGetLoad(u, s) ==
    /\ upc[u] = "idle"
    /\ s \in handles
    /\ ureq' = [ureq EXCEPT ![u] = [op |-> "try_get", s |-> s, ret |-> None]]
    /\ upc' = [upc EXCEPT ![u] = IF completed(s) THEN "try_take" ELSE "idle"]
    /\ UNCHANGED <<execVars, poolVars, workerVars, callerVars, adminVars,
                   uget, result_lock, parked, asyncVars>>

\* try_get under the result mutex (task.rs:207-213): an empty slot returns
\* None, a value is taken out of the slot and returned.
TryGetTake(u) ==
    /\ upc[u] = "try_take"
    /\ LET s == ureq[u].s
       IN  /\ result_lock[s] = None
           /\ IF state[s].result = None
              THEN UNCHANGED <<state, uget, ureq>>
              ELSE /\ uget' = [uget EXCEPT ![u] = Append(@, <<s, state[s].result[1]>>)]
                   /\ ureq' = [ureq EXCEPT ![u].ret = state[s].result]
                   /\ state' = [state EXCEPT ![s].result = Take(@)]
    /\ upc' = [upc EXCEPT ![u] = "idle"]
    /\ UNCHANGED <<COUNTER, global_queue, task_storage, task_complete_handles,
                   local_queue, local_storage, local_handles, poolVars,
                   workerVars, callerVars, adminVars, result_lock, parked,
                   asyncVars>>

\* A handle is an identifier and a reference to the completion state
\* (task.rs:126-130, 253-256); TaskResult::from (task.rs:186), as_state
\* (task.rs:247, 283) and forget_result (task.rs:239), which moves both
\* fields into a TaskHandle.
TaskResultFrom(s, id) == [id |-> id, state |-> s]
as_state(h) == h.state
forget_result_null(h) == [id |-> INVALID, state |-> INVALID]
forget_result(h) == [id |-> h.id, state |-> h.state]

\* The handle submit* returned for task id (executor.rs:131, 155).
HandleOf(id) == TaskResultFrom(CallbackOf(id), id)

\* A user downgrades its handle of task id and keeps the forgetful handle.
ForgetResult(u, id) ==
    /\ upc[u] = "idle"
    /\ id \in handles
    /\ LET f == forget_result(HandleOf(id))
       IN  ureq' = [ureq EXCEPT ![u] =
                       [op |-> "forget_result", s |-> as_state(f), ret |-> Some(f.id)]]
    /\ UNCHANGED <<execVars, poolVars, workerVars, callerVars, adminVars,
                   upc, uget, result_lock, parked, asyncVars>>

\* The wakers of user u the registry holds or a worker has invoked.
WakerCount(u) ==
    LET RECURSIVE Sum(_)
        Sum(ids) == IF ids = {} THEN 0
                    ELSE LET id == CHOOSE x \in ids : TRUE
                         IN  Count(u, waker_registry[id]) + Sum(ids \ {id})
    IN  woken[u] + Sum(DOMAIN waker_registry)

\* AsyncTaskHandle::poll, the handle's attempt to take the result
\* (async_task.rs:57), first the load of the flag: a false flag goes on to
\* register the waker.
PollLoad(u, s, maxPolls) ==
    /\ upc[u] = "idle"
    /\ s \in handles
    /\ WakerCount(u) < maxPolls
    /\ ureq' = [ureq EXCEPT ![u] = [op |-> "poll", s |-> s, ret |-> None]]
    /\ upc' = [upc EXCEPT ![u] =
                  IF completed(s) THEN "poll_take" ELSE "register_waker"]
    /\ UNCHANGED <<execVars, poolVars, workerVars, callerVars, adminVars,
                   uget, result_lock, parked, asyncVars>>

\* AsyncTaskHandle::poll, the take under the result mutex: a value gives
\* Poll::Ready (async_task.rs:58), an empty slot goes on to register the
\* waker.
PollTake(u) ==
    /\ upc[u] = "poll_take"
    /\ LET s == ureq[u].s
       IN  /\ result_lock[s] = None
           /\ IF state[s].result = None
              THEN /\ upc' = [upc EXCEPT ![u] = "register_waker"]
                   /\ UNCHANGED <<state, uget, ureq>>
              ELSE /\ uget' = [uget EXCEPT ![u] = Append(@, <<s, state[s].result[1]>>)]
                   /\ ureq' = [ureq EXCEPT ![u].ret = state[s].result]
                   /\ state' = [state EXCEPT ![s].result = Take(@)]
                   /\ upc' = [upc EXCEPT ![u] = "idle"]
    /\ UNCHANGED <<COUNTER, global_queue, task_storage, task_complete_handles,
                   local_queue, local_storage, local_handles, poolVars,
                   workerVars, callerVars, adminVars, result_lock, parked,
                   asyncVars>>

\* WakerRegistry::register_waker (async_task.rs:60, 88-94): the waker is
\* pushed to the identifier's entry under the write lock; poll returns
\* Poll::Pending.
RegisterWaker(u) ==
    /\ upc[u] = "register_waker"
    /\ LET id == ureq[u].s
       IN  waker_registry' =
               Insert(waker_registry, id, Append(Wakers(waker_registry, id), u))
    /\ upc' = [upc EXCEPT ![u] = "idle"]
    /\ UNCHANGED <<execVars, poolVars, workerVars, callerVars, adminVars,
                   ureq, uget, result_lock, parked, woken>>

----------------------------------------------------------------------------
\* The threads that call the executor and use the handles.
Callers == {"c1", "c2"}
Users == {"u1", "u2"}

NoSubmission ==
    [id |-> INVALID, thread_name |-> "", dependencies |-> {}, waits |-> INVALID,
     tid |-> 0]
NoHandleCall == [op |-> "", s |-> INVALID, ret |-> None]

InitThreads ==
    /\ cpc = [c \in Callers |-> "idle"]
    /\ creq = [c \in Callers |-> NoSubmission]
    /\ upc = [u \in Users |-> "idle"]
    /\ ureq = [u \in Users |-> NoHandleCall]
    /\ uget = [u \in Users |-> <<>>]
    /\ woken = [u \in Users |-> 0]

\* Dependency-gated scheduling on a fixed pool of a dedicated thread and a
\* worker: one caller submits tasks with dependencies to the global queue
\* and to the dedicated thread.
DepTasks == 3
DepPools == { << <<"main", 1>>, <<"worker", 1>> >> }

InitDeps ==
    /\ \E thread_configs \in DepPools : InitExecutor(thread_configs)
    /\ InitThreads

NextDeps ==
    \/ \E t \in 1..nthreads : Worker(t)
    \/ \E deps \in DepLists : SubmitRegister("c1", deps, DepTasks)
    \/ SubmitPush("c1")
    \/ \E deps \in DepLists : SubmitToCheck("c1", "main", deps, DepTasks)
    \/ SubmitToRegister("c1")
    \/ SubmitToPush("c1")

SpecDeps == InitDeps /\ [][NextDeps]_vars

\* The same on the pools the eventual-execution claim names, under fair
\* scheduling: every thread that can take a step eventually takes one.
FairTasks == 2
FairPools == { << <<"main", 1>> >> }

InitFair ==
    /\ \E thread_configs \in FairPools : InitExecutor(thread_configs)
    /\ InitThreads

NextFair ==
    \/ \E t \in 1..nthreads : Worker(t)
    \/ \E deps \in DepLists : SubmitRegister("c1", deps, FairTasks)
    \/ SubmitPush("c1")
    \/ \E deps \in DepLists : SubmitToCheck("c1", "main", deps, FairTasks)
    \/ SubmitToRegister("c1")
    \/ SubmitToPush("c1")

SpecFair ==
    /\ InitFair
    /\ [][NextFair]_vars
    /\ \A t \in 1..1 : WF_vars(t \in 1..nthreads /\ Worker(t))
    /\ WF_vars(SubmitPush("c1"))
    /\ WF_vars(SubmitToRegister("c1"))
    /\ WF_vars(SubmitToPush("c1"))

\* The handles: users wait for, get and try to get the results of tasks
\* submitted to the global queue and to the dedicated thread.
HandleTasks == 1
HandlePools == { << <<"main", 1>>, <<"worker", 1>> >> }

InitHandle ==
    /\ \E thread_configs \in HandlePools : InitExecutor(thread_configs)
    /\ InitThreads

NextHandle ==
    \/ \E t \in 1..nthreads : Worker(t)
    \/ SubmitRegister("c1", {}, HandleTasks)
    \/ SubmitPush("c1")
    \/ SubmitToCheck("c1", "main", {}, HandleTasks)
    \/ SubmitToRegister("c1")
    \/ SubmitToPush("c1")
    \/ \E u \in Users, s \in handles, op \in {"wait", "get"} : WaitEnter(u, s, op)
    \/ \E u \in Users : WaitLock(u)
    \/ \E u \in Users : WaitRecheck(u)
    \/ \E u \in Users : WaitPark(u)
    \/ \E u \in Users : Get(u)
    \/ \E u \in Users, s \in handles : TryGetLoad(u, s)
    \/ \E u \in Users : TryGetTake(u)

SpecHandle == InitHandle /\ [][NextHandle]_vars

\* Concurrent submissions: two callers submit tasks to the global queue and
\* to the dedicated thread, two workers execute them, one user gets the
\* results.
SubmitTasks == 2

NextSubmit ==
    \/ \E t \in 1..nthreads : Worker(t)
    \/ \E c \in Callers : SubmitRegister(c, {}, SubmitTasks)
    \/ \E c \in Callers : SubmitPush(c)
    \/ \E c \in Callers : SubmitToCheck(c, "main", {}, SubmitTasks)
    \/ \E c \in Callers : SubmitToRegister(c)
    \/ \E c \in Callers : SubmitToPush(c)
    \/ \E s \in handles : WaitEnter("u1", s, "get")
    \/ WaitLock("u1")
    \/ WaitRecheck("u1")
    \/ WaitPark("u1")
    \/ Get("u1")

SpecSubmit == InitHandle /\ [][NextSubmit]_vars

\* Blocking inside a task: closures call wait() on the handle of a task
\* submitted before, on a pool of one dedicated thread and on a pool of a
\* dedicated thread and a worker.
BlockTasks == 2
BlockPools == { << <<"main", 1>> >>, << <<"main", 1>>, <<"worker", 1>> >> }

InitBlock ==
    /\ \E thread_configs \in BlockPools : InitExecutor(thread_configs)
    /\ InitThreads

NextBlock ==
    \/ \E t \in 1..nthreads : Worker(t)
    \/ \E t \in 1..nthreads : Closure(t)
    \/ \E w \in handles \cup {INVALID} :
           SubmitRegisterClosure("c1", {}, w, BlockTasks)
    \/ SubmitPush("c1")
    \/ \E w \in handles \cup {INVALID} :
           SubmitToCheckClosure("c1", "main", {}, w, BlockTasks)
    \/ SubmitToRegister("c1")
    \/ SubmitToPush("c1")

SpecBlock == InitBlock /\ [][NextBlock]_vars

\* Forgetful handles: a user downgrades handles and waits on them, and the
\* caller submits tasks that depend on a forgetful handle.
ForgetTasks == 2

NextForget ==
    \/ \E t \in 1..nthreads : Worker(t)
    \/ SubmitRegister("c1", {}, ForgetTasks)
    \/ \E id \in handles :
           SubmitRegister("c1", {as_state(forget_result(HandleOf(id)))},
                          ForgetTasks)
    \/ SubmitPush("c1")
    \/ \E id \in handles :
           SubmitToCheck("c1", "main", {as_state(forget_result(HandleOf(id)))},
                         ForgetTasks)
    \/ SubmitToRegister("c1")
    \/ SubmitToPush("c1")
    \/ \E id \in handles : ForgetResult("u1", id)
    \/ WaitEnter("u1", ureq["u1"].s, "wait")
    \/ WaitLock("u1")
    \/ WaitRecheck("u1")
    \/ WaitPark("u1")

SpecForget == InitHandle /\ [][NextForget]_vars

\* Shutdown under fair scheduling: the pool of one dedicated thread is
\* joined while tasks with dependencies are submitted to it and to the
\* global queue.
StopTasks == 2

NextStop ==
    \/ \E t \in 1..nthreads : Worker(t)
    \/ \E deps \in DepLists : SubmitRegister("c1", deps, StopTasks)
    \/ SubmitPush("c1")
    \/ \E deps \in DepLists : SubmitToCheck("c1", "main", deps, StopTasks)
    \/ SubmitToRegister("c1")
    \/ SubmitToPush("c1")
    \/ JoinBegin("join_all_workers", <<>>, MaxThreads)
    \/ RequestShutdown
    \/ Join
    \/ ClearStates

SpecStop ==
    /\ InitFair
    /\ [][NextStop]_vars
    /\ \A t \in 1..1 : WF_vars(t \in 1..nthreads /\ Worker(t))
    /\ WF_vars(RequestShutdown)
    /\ WF_vars(Join)
    /\ WF_vars(ClearStates)

\* The cross-thread ring of lib.rs:419-445: a chain of tasks submitted
\* alternately to the dedicated threads main and render, each after the one
\* before and the first after a null handle, in a pool that also has a
\* worker; a user waits on the last handle.
RingTasks == 3
RingPools == { << <<"main", 1>>, <<"render", 1>>, <<"worker", 1>> >> }

InitRing ==
    /\ \E thread_configs \in RingPools : InitExecutor(thread_configs)
    /\ InitThreads

RingThread(k) == IF k % 2 = 0 THEN "main" ELSE "render"
RingStart(k) == IF k = 0 THEN {INVALID} ELSE {k - 1}

NextRing ==
    \/ \E t \in 1..nthreads : Worker(t)
    \/ SubmitToCheck("c1", RingThread(COUNTER), RingStart(COUNTER), RingTasks)
    \/ SubmitToRegister("c1")
    \/ SubmitToPush("c1")
    \/ WaitEnter("u1", RingTasks - 1, "wait")
    \/ WaitLock("u1")
    \/ WaitRecheck("u1")
    \/ WaitPark("u1")

SpecRing == InitRing /\ [][NextRing]_vars

\* The asynchronous adapter: two users poll the handles of tasks spawned to
\* the global queue and to the dedicated thread of a pool of one.
AsyncTasks == 2
MaxPolls == 1
AsyncPools == { << <<"main", 1>> >> }

InitAsync ==
    /\ \E thread_configs \in AsyncPools : InitExecutor(thread_configs)
    /\ InitThreads

NextAsync ==
    \/ \E t \in 1..nthreads : Worker(t)
    \/ SubmitRegister("c1", {}, AsyncTasks)
    \/ SubmitPush("c1")
    \/ SubmitToCheck("c1", "main", {}, AsyncTasks)
    \/ SubmitToRegister("c1")
    \/ SubmitToPush("c1")
    \/ \E u \in Users, s \in handles : PollLoad(u, s, MaxPolls)
    \/ \E u \in Users : PollTake(u)
    \/ \E u \in Users : RegisterWaker(u)

SpecAsync == InitAsync /\ [][NextAsync]_vars

\* Reconfiguration under load: the pool of one dedicated thread is
\* reconfigured to the same shape while a caller submits tasks to the
\* global queue and to the dedicated thread; the closure of a task may call
\* submit_to with a name that is not registered.
ConfigTasks == 2
ConfigThreads == 3
ConfigPools == { << <<"main", 1>> >> }

InitConfig ==
    /\ \E thread_configs \in ConfigPools : InitExecutor(thread_configs)
    /\ InitThreads

NextConfig ==
    \/ \E t \in 1..nthreads : Worker(t)
    \/ \E thread_name \in {"", "ghost"} :
           SubmitRegisterTask("c1", {}, INVALID, thread_name, ConfigTasks)
    \/ SubmitPush("c1")
    \/ SubmitToCheck("c1", "main", {}, ConfigTasks)
    \/ SubmitToRegister("c1")
    \/ SubmitToPush("c1")
    \/ \E thread_configs \in ConfigPools :
           JoinBegin("config", thread_configs, ConfigThreads)
    \/ RequestShutdown
    \/ Join
    \/ ClearStates
    \/ SpawnState
    \/ SpawnThread

SpecConfig == InitConfig /\ [][NextConfig]_vars

\* Reconfiguration under load and fair scheduling: the pool of one dedicated
\* thread is reconfigured to the same shape while a caller submits tasks
\* with dependencies to the global queue and to the dedicated thread; every
\* thread that can take a step eventually takes one.
SurviveTasks == 2
SurviveThreads == 2

NextSurvive ==
    \/ \E t \in 1..nthreads : Worker(t)
    \/ \E deps \in DepLists : SubmitRegister("c1", deps, SurviveTasks)
    \/ SubmitPush("c1")
    \/ \E deps \in DepLists : SubmitToCheck("c1", "main", deps, SurviveTasks)
    \/ SubmitToRegister("c1")
    \/ SubmitToPush("c1")
    \/ \E thread_configs \in ConfigPools :
           JoinBegin("config", thread_configs, SurviveThreads)
    \/ RequestShutdown
    \/ Join
    \/ ClearStates
    \/ SpawnState
    \/ SpawnThread

SpecSurvive ==
    /\ InitConfig
    /\ [][NextSurvive]_vars
    /\ WF_vars(\E t \in 1..nthreads : Worker(t))
    /\ WF_vars(SubmitPush("c1"))
    /\ WF_vars(SubmitToRegister("c1"))
    /\ WF_vars(SubmitToPush("c1"))
    /\ WF_vars(RequestShutdown)
    /\ WF_vars(Join)
    /\ WF_vars(ClearStates)
    /\ WF_vars(SpawnState)
    /\ WF_vars(SpawnThread)

\* The whole executor: a caller submits to the global queue and to named
\* threads while the admin reconfigures, joins and drops the pool.
InitLists ==
    { << <<"main", 1>> >>,
      << <<"main", 1>>, <<"main", 1>> >> }

Init ==
    /\ \E thread_configs \in InitLists : InitExecutor(thread_configs)
    /\ InitThreads

Next ==
    \/ \E t \in 1..nthreads : Worker(t)
    \/ \E deps \in DepLists : SubmitRegister("c1", deps, MaxTasks)
    \/ SubmitPush("c1")
    \/ \E thread_name \in ThreadNames, deps \in DepLists :
           SubmitToCheck("c1", thread_name, deps, MaxTasks)
    \/ SubmitToRegister("c1")
    \/ SubmitToPush("c1")
    \/ Admin(MaxThreads)

Spec == Init /\ [][Next]_vars

----------------------------------------------------------------------------
\* Claims.

EventualExecution ==
    \A id \in 0..(FairTasks - 1) :
        (id \in handles) ~> (id \in DOMAIN state /\ state[id].completed)

\* C3: a thread in wait() is never left parked on the condition variable of
\* a task that has completed and whose notify_all was already issued (no
\* other wake-up ever comes, so such a thread never returns from wait()).
WaitHasNoLostWakeup ==
    \A u \in Users :
        upc[u] = "parked" =>
            \/ ~completed(ureq[u].s)
            \/ \E t \in 1..nthreads :
                   wpc[t] = "notify" /\ wcb[t] = Some(ureq[u].s)

\* The results get and try_get handed out for completion state s.
Delivered(s) ==
    UNION {{<<u, i>> : i \in {j \in 1..Len(uget[u]) : uget[u][j][1] = s}} :
              u \in Users}

\* C4: the value of a completion state is handed out at most once over all
\* users, get and try_get together, and a get that panicked found the slot
\* of a completed task empty because the value had been handed out.
SingleDelivery ==
    /\ \A s \in DOMAIN state : Cardinality(Delivered(s)) <= 1
    /\ \A u \in Users :
           upc[u] = "panicked" =>
               /\ completed(ureq[u].s)
               /\ state[ureq[u].s].result = None
               /\ Cardinality(Delivered(ureq[u].s)) = 1

\* C4's case: one user was handed the value and another user's get, issued
\* afterwards, panicked.
SingleDeliveryWitness ==
    \E u, v \in Users :
        /\ Len(uget[u]) = 1
        /\ upc[v] = "panicked"
        /\ ureq[v].s = uget[u][1][1]

\* C5: every completion state's slot holds the output of the closure of the
\* submission it was created for, and so does every value get returned for
\* that submission's handle.
ResultRouting ==
    /\ \A s \in DOMAIN state :
           state[s].result # None => state[s].result[1] = Output(s)
    /\ \A u \in Users : \A i \in 1..Len(uget[u]) :
           uget[u][i][2] = Output(uget[u][i][1])

\* C5's case: get returned the results of two tasks, one submitted by each
\* caller, while both callers were submitting concurrently.
ResultRoutingWitness ==
    /\ Len(uget["u1"]) = 2
    /\ uget["u1"][1][1] # uget["u1"][2][1]

UnknownThreadRejected ==
    [][/\ errors' # errors =>
              /\ errors'[Len(errors')] \notin DOMAIN thread_registry
              /\ UNCHANGED <<execVars, poolVars, workerVars, cpc, creq,
                             issued, handles>>
       /\ \A c \in Callers :
              (cpc[c] = "idle" /\ cpc'[c] = "register") =>
                  creq'[c].thread_name \in DOMAIN thread_registry]_vars

\* C7's case: the bare logical name of a pool configured with count 2 was
\* rejected while worker_0 and worker_1 were registered, nothing scheduled.
UnknownThreadRejectedWitness ==
    /\ errors = <<"worker">>
    /\ DOMAIN thread_registry = {"worker_0", "worker_1"}
    /\ COUNTER = 0
    /\ global_queue = <<>>

\* The worker threads that have not ended.
Running == {t \in 1..nthreads : wpc[t] # "exited"}

\* C8: whenever no config, join_all_workers or drop is in progress, every
\* registered name has exactly one running worker thread of that name and
\* one thread-local state, and these are all the running worker threads.
PoolShape ==
    apc = "idle" =>
        /\ DOMAIN thread_local_states = DOMAIN thread_registry
        /\ \A nm \in DOMAIN thread_registry :
               Cardinality({t \in Running : wname[t] = nm}) = 1
        /\ \A t \in Running : wname[t] \in DOMAIN thread_registry

\* C9: no thread is joined twice, and once join_all_workers or drop has
\* returned every worker thread that was spawned has been asked to shut
\* down and has been joined exactly once.
IdempotentShutdown ==
    /\ \A t \in 1..nthreads : joined[t] <= 1
    /\ (apc \in {"idle", "dropped"} /\ DOMAIN thread_registry = {}) =>
           \A t \in 1..nthreads : shutdown[t] /\ joined[t] = 1

\* C10: when config has returned, every thread spawned before that call has
\* exited and been joined and holds no thread-local state any more.
DestructiveReconfiguration ==
    apc = "idle" =>
        \A t \in 1..prev :
            /\ wpc[t] = "exited"
            /\ joined[t] = 1
            /\ \A nm \in DOMAIN thread_local_states :
                   thread_local_states[nm] # t

\* C11: try_get never waits for anything but the result mutex, which its
\* holder is about to release; it returns None without changing the
\* completion state when the flag is false or the slot is empty, and
\* otherwise returns the slot's value and leaves the slot empty.
TryGetContract ==
    [][\A u \in Users :
           /\ (upc[u] = "try_take" /\ result_lock[ureq[u].s] # None) =>
                  upc[result_lock[ureq[u].s][1]] \in {"recheck", "park"}
           /\ (/\ upc[u] = "idle" /\ upc'[u] = "idle"
               /\ ureq'[u] # ureq[u] /\ ureq'[u].op = "try_get") =>
                  /\ ~completed(ureq'[u].s)
                  /\ ureq'[u].ret = None
                  /\ UNCHANGED <<state, uget>>
           /\ (upc[u] = "try_take" /\ upc'[u] = "idle") =>
                  LET s == ureq[u].s
                  IN  /\ completed(s)
                      /\ ureq'[u].ret = state[s].result
                      /\ state' = [state EXCEPT ![s].result = None]]_vars

\* C11's case: of two try_get calls on clones of the handle of a completed
\* task, one returned the value and the other returned None.
TryGetContractWitness ==
    \E u, v \in Users :
        /\ upc[u] = "idle" /\ upc[v] = "idle"
        /\ ureq[u].op = "try_get" /\ ureq[u].ret # None
        /\ ureq[v].op = "try_get" /\ ureq[v].ret = None
        /\ ureq[u].s = ureq[v].s

\* C12: the slot of every task's completion state is written at most once,
\* a true completion flag or a value in the slot implies that the one write
\* has happened, and a thread that has returned from wait() and is about to
\* read the slot finds it written.
CompletionStateInvariant ==
    /\ \A s \in DOMAIN state \ {INVALID} :
           /\ WriteCount(s) <= 1
           /\ state[s].completed => WriteCount(s) = 1
           /\ state[s].result # None => WriteCount(s) = 1
    /\ \A u \in Users :
           upc[u] \in {"take", "try_take"} => WriteCount(ureq[u].s) = 1

\* C12's case: one thread has returned from wait() and is about to read the
\* slot, which holds the value, while another is still parked in wait().
CompletionStateInvariantWitness ==
    \E u, v \in Users :
        /\ upc[u] = "take"
        /\ state[ureq[u].s].result # None
        /\ upc[v] = "parked"
        /\ ureq[v].s = ureq[u].s

\* The workers that hold a task whose box they removed: its closure is
\* running or has run and its completion callback is being invoked.
Owning(t) ==
    wpc[t] \in {"exec_local", "exec_global", "set_result", "set_completed",
                "notify"}

\* C13: no task identifier is logged as executed twice, no two workers own
\* the same task at the same time, a task whose closure is about to run has
\* not run before, and no completion callback is held by two workers.
AtMostOnceExecution ==
    /\ \A i, j \in 1..Len(log) : i # j => log[i].id # log[j].id
    /\ \A t1, t2 \in 1..nthreads :
           (t1 # t2 /\ Owning(t1) /\ Owning(t2)) =>
               /\ wtask[t1][1].id # wtask[t2][1].id
               /\ (wcb[t1] # None /\ wcb[t2] # None) => wcb[t1] # wcb[t2]
    /\ \A t \in 1..nthreads :
           Executing(t) => \A i \in 1..Len(log) : log[i].id # wtask[t][1].id

\* C13's case: the two workers run closures at the same time, the dedicated
\* thread one popped from its local queue and the other one popped from the
\* global queue, after a first task was executed.
AtMostOnceExecutionWitness ==
    /\ wpc[1] = "exec_local"
    /\ wpc[2] = "exec_global"
    /\ Len(log) = 1

\* Worker t is blocked in a closure's wait() on a task that has not
\* completed: only that task's completion can wake it.
Blocked(t) ==
    wpc[t] = "wait_parked" /\ ~completed(waits[wtask[t][1].id])

\* The records in the queues whose dependencies have all completed.
Runnable ==
    {i \in 1..Len(global_queue) : ready_to_execute(global_queue[i])}

\* C14: the executor is never in a state in which every worker is blocked
\* in a closure's wait() while a record that is ready to execute sits in the
\* global queue.
BlockingDoesNotDeadlock ==
    ~(/\ nthreads > 0
      /\ \A t \in 1..nthreads : Blocked(t)
      /\ Runnable # {})

\* C15: the wake call of a worker that completed a task invokes every waker
\* registered for that task's identifier at that moment exactly once and
\* leaves no entry for the identifier; the entries of other identifiers stay
\* as they are, and no waker is invoked in any other step.
ResumptionCallbacks ==
    [][/\ \A t \in 1..nthreads :
              (wpc[t] = "wake" /\ wpc'[t] # "wake") =>
                  LET id == wtask[t][1].id
                  IN  /\ id \notin DOMAIN waker_registry'
                      /\ \A u \in Users :
                             woken'[u] =
                                 woken[u] + Count(u, Wakers(waker_registry, id))
                      /\ \A x \in DOMAIN waker_registry \ {id} :
                             /\ x \in DOMAIN waker_registry'
                             /\ waker_registry'[x] = waker_registry[x]
       /\ woken' # woken =>
              \E t \in 1..nthreads : wpc[t] = "wake" /\ wpc'[t] # "wake"]_vars

\* C15's case: a wake call has invoked the waker one user registered for a
\* task, while the waker the other user registered for the other task is
\* still in the registry and was not invoked.
ResumptionCallbacksWitness ==
    /\ woken = [u \in Users |-> IF u = "u1" THEN 1 ELSE 0]
    /\ \E id \in DOMAIN waker_registry :
           /\ waker_registry[id] = <<"u2">>
           /\ ureq["u1"].op = "poll" /\ ureq["u1"].s # id

\* The records in the queues, held by the workers and in the log.
Records ==
    {global_queue[i] : i \in 1..Len(global_queue)}
        \cup UNION {{local_queue[t][i] : i \in 1..Len(local_queue[t])} :
                       t \in 1..nthreads}
        \cup {wtask[t][1] : t \in {x \in 1..nthreads : wtask[x] # None}}
        \cup {log[i] : i \in 1..Len(log)}

\* C16: the forgetful handle of every handle has the same identifier and the
\* same completion state, so its completed() agrees with the original's at
\* all times; forget_result changes nothing but the caller's handle; a wait
\* entered through the forgetful handle returns at once exactly when the
\* task has completed; and a record submitted with a forgetful handle as
\* dependency is gated by the task's own completion state and runs after it.
ForgetResultFrame ==
    [][/\ \A id \in handles :
              LET h == HandleOf(id)
                  f == forget_result(h)
              IN  /\ f.id = h.id
                  /\ as_state(f) = as_state(h)
                  /\ completed(as_state(f)) = completed(as_state(h))
                  /\ ready_to_execute(QueuedTask(id, {as_state(f)}))
                         = ready_to_execute(QueuedTask(id, {as_state(h)}))
       /\ (ureq'["u1"] # ureq["u1"] /\ ureq'["u1"].op = "forget_result") =>
              /\ ureq'["u1"].s \in handles
              /\ ureq'["u1"].ret = Some(ureq'["u1"].s)
              /\ UNCHANGED <<execVars, poolVars, workerVars, callerVars,
                             upc, uget, result_lock, parked>>
       /\ (upc["u1"] = "idle" /\ ureq'["u1"].op = "wait") =>
              (upc'["u1"] = "idle") = completed(ureq'["u1"].s)
       /\ \A r \in Records :
              r.dependencies # {} =>
                  /\ r.dependencies \subseteq handles
                  /\ r.id \notin r.dependencies
       /\ \A i \in 1..Len(log) : \A s \in log[i].dependencies :
              \E j \in 1..(i - 1) : log[j].id = s]_vars

\* C16's case: the user waits through a forgetful handle, parked, for a task
\* whose record, submitted with a forgetful handle of another task as
\* dependency, is queued and not ready.
ForgetResultFrameWitness ==
    /\ upc["u1"] = "parked"
    /\ \E i \in 1..Len(global_queue) :
           /\ global_queue[i].id = ureq["u1"].s
           /\ global_queue[i].dependencies # {}
           /\ ~ready_to_execute(global_queue[i])

\* C17: the record of a caller's latest submit_to is only ever in the local
\* queue of, and popped and executed by, the thread that was registered
\* under the given name when the call checked the registry, and it is never
\* in the global queue.
ThreadAffinity ==
    \A c \in Callers :
        (creq[c].thread_name # "" /\ creq[c].id # INVALID) =>
            /\ \A t \in 1..nthreads :
                   /\ \A i \in 1..Len(local_queue[t]) :
                          local_queue[t][i].id = creq[c].id => t = creq[c].tid
                   /\ (wtask[t] # None /\ wtask[t][1].id = creq[c].id) =>
                          t = creq[c].tid
            /\ \A i \in 1..Len(global_queue) :
                   global_queue[i].id # creq[c].id

\* C18: under fair scheduling a worker whose shutdown flag has been set
\* eventually leaves its loop and its thread ends, whatever is queued.
WorkerTermination ==
    \A t \in 1..1 :
        (t \in 1..nthreads /\ shutdown[t]) ~> (wpc[t] = "exited")

\* The position of identifier id in the order of registration.
Registered(id) == CHOOSE i \in 1..Len(issued) : issued[i] = id

\* C19: every dependency of every record queued, held or logged is the null
\* state or the completion state of a task registered strictly before the
\* record's own task, so following dependencies strictly descends in the
\* order of registration and never comes back to the record.
AcyclicByConstruction ==
    \A r \in Records :
        /\ \E i \in 1..Len(issued) : issued[i] = r.id
        /\ \A s \in r.dependencies \ {INVALID} :
               /\ \E i \in 1..Len(issued) : issued[i] = s
               /\ Registered(s) < Registered(r.id)

\* C19's case: a chain of three records, each depending on the one before.
AcyclicByConstructionWitness ==
    \E r1, r2, r3 \in Records :
        /\ r1.id \in r2.dependencies
        /\ r2.id \in r3.dependencies

\* The ring's tasks run in chain order, each on its own dedicated thread,
\* and no closure starts before the task before it has completed.
RingOrder ==
    /\ \A i \in 1..Len(log) : log[i].id = i - 1
    /\ \A t \in 1..nthreads :
           Owning(t) =>
               /\ wname[t] = RingThread(wtask[t][1].id)
               /\ Executing(t) =>
                      \A t2 \in 1..nthreads \ {t} : ~Executing(t2)
               /\ Executing(t) =>
                      \A s \in wtask[t][1].dependencies : completed(s)

\* All tasks of the ring have completed and every worker is back in its
\* loop: nothing is left that could wake a parked waiter.
RingDone ==
    /\ \A id \in 0..(RingTasks - 1) : id \in DOMAIN state /\ completed(id)
    /\ \A t \in 1..nthreads : ~Owning(t) /\ wpc[t] # "wake"

\* C20: the tasks of the ring execute strictly in chain order without
\* overlapping, and the thread that waits on the last handle is not left
\* parked once the whole ring has completed.
CrossThreadRing ==
    /\ RingOrder
    /\ RingDone => upc["u1"] # "parked"

\* C21: a worker that finds the record it popped from its local queue not
\* ready pushes it back to the tail and leaves the local tier: its next step
\* is the pop of the global tier, not another pop of the local queue.
LocalTierDoesNotSpin ==
    [][\A t \in 1..nthreads :
           (/\ wpc[t] = "local_popped"
            /\ ~ready_to_execute(wtask[t][1])
            /\ wpc'[t] # "local_popped") =>
               /\ local_queue'[t] = Append(local_queue[t], wtask[t][1])
               /\ wpc'[t] = "global"]_vars

\* Worker t ends an iteration in the idle sleep of worker.rs:88-91: it comes
\* out of the global tier with nothing executed.
Sleeps(t) == wpc[t] \in {"global", "global_popped"} /\ wpc'[t] = "loop"

InQueue(queue, id) == {i \in 1..Len(queue) : queue[i].id = id}
InLocal(id) ==
    UNION {{<<t, i>> : i \in InQueue(local_queue[t], id)} : t \in 1..nthreads}
Holders(id) == {t \in 1..nthreads : wtask[t] # None /\ wtask[t][1].id = id}
Logged(id) == \E i \in 1..Len(log) : log[i].id = id
RecordCount(id) ==
    Cardinality(InQueue(global_queue, id)) + Cardinality(InLocal(id))
        + Cardinality(Holders(id))

BoxMaps(id) ==
    {t \in 1..nthreads : id \in local_storage[t]}
        \cup (IF id \in task_storage THEN {0} ELSE {})

\* Worker t calls execute_local_task / execute_task for the record it holds
\* and finds no box under the identifier (worker.rs:96-99, 116-119).
RemovesAbsent(t) ==
    \/ /\ wpc[t] = "local_popped" /\ wpc'[t] # "local_popped"
       /\ ready_to_execute(wtask[t][1])
       /\ wtask[t][1].id \notin local_storage[t]
    \/ /\ wpc[t] = "global_popped" /\ wpc'[t] # "global_popped"
       /\ ready_to_execute(wtask[t][1])
       /\ wtask[t][1].id \notin task_storage

ExecutionStepOrder ==
    /\ [](\A t \in 1..nthreads :
              wtask[t] # None =>
                  LET id == wtask[t][1].id
                      s == CallbackOf(id)
                  IN  /\ Executing(t) =>
                             /\ BoxMaps(id) = {} /\ ~Logged(id)
                             /\ ~completed(s) /\ state[s].result = None
                      /\ wpc[t] = "set_result" =>
                             /\ Logged(id) /\ wcb[t] = Some(s)
                             /\ id \notin DOMAIN task_complete_handles
                             /\ id \notin DOMAIN local_handles[t]
                             /\ ~completed(s) /\ state[s].result = None
                      /\ wpc[t] = "set_completed" =>
                             /\ Logged(id)
                             /\ ~completed(s) /\ state[s].result = Some(Output(id))
                      /\ wpc[t] \in {"notify", "wake"} => Logged(id) /\ completed(s))
    /\ [][woken' # woken =>
              \E t \in 1..nthreads :
                  /\ wpc[t] = "wake" /\ wpc'[t] # "wake"
                  /\ completed(CallbackOf(wtask[t][1].id))]_vars

\* C25's case: the worker has set the flag of a task and notified its
\* waiters, and is about to invoke the waker a poll registered for it.
ExecutionStepOrderWitness ==
    \E t \in 1..nthreads :
        /\ wpc[t] = "wake"
        /\ Wakers(waker_registry, wtask[t][1].id) # <<>>

\* The logical AND of a set of flags.
And(flags) == FALSE \notin flags

\* C26: ready_to_execute of every record is the AND of the completion flags
\* of its dependencies, which is true for the empty list and for a null
\* handle; no completion flag goes back from true to false, so a record
\* that is ready stays ready.
ReadinessPredicate ==
    /\ [](/\ \A r \in Records :
                 /\ ready_to_execute(r) = And({completed(s) : s \in r.dependencies})
                 /\ r.dependencies \subseteq {INVALID} => ready_to_execute(r)
          /\ completed(INVALID))
    /\ [][/\ \A s \in DOMAIN state : completed(s) => completed(s)'
          /\ \A r \in Records : ready_to_execute(r) => ready_to_execute(r)']_vars

\* C26's case: a queued record has two dependencies, one completed and the
\* other not, and is not ready; another record depends on a null handle.
ReadinessPredicateWitness ==
    /\ \E r \in Records :
           /\ \E s \in r.dependencies : completed(s)
           /\ \E s \in r.dependencies : ~completed(s)
           /\ ~ready_to_execute(r)
    /\ \E r \in Records : r.dependencies = {INVALID}

\* The dedicated threads the engine configures beside its default pool of
\* workers (lib.rs:422-426).
DedicatedThreads == {"main", "render"}

\* C27: a record of the global queue is popped and its task executed only
\* by a thread of the default worker pool, never by a dedicated thread.
GlobalWorkByDefaultPool ==
    \A t \in 1..nthreads :
        wpc[t] \in {"global_popped", "exec_global"} =>
            wname[t] \notin DedicatedThreads

\* C28: no submit_to / submit_to_after that has passed the registry check
\* reaches the expect() of register_task or the unreachable!() of the push:
\* no caller ever panics.
AssertionValidity == \A c \in Callers : cpc[c] # "panicked"

\* C29: a waker that a poll registered for a task is never left in the
\* registry once the task has completed and its worker's wake call is over
\* (no other wake call for the identifier ever comes, so such a waker is
\* never invoked); and a poll that finds the flag true and a value in the
\* slot returns the value.
PollHasNoLostWakeup ==
    /\ [](\A id \in DOMAIN waker_registry :
              waker_registry[id] # <<>> =>
                  \/ ~completed(CallbackOf(id))
                  \/ \E t \in 1..nthreads :
                         /\ wtask[t] # None /\ wtask[t][1].id = id
                         /\ wpc[t] \in {"notify", "wake"})
    /\ [][\A u \in Users :
              (/\ upc[u] = "poll_take" /\ upc'[u] # "poll_take"
               /\ state[ureq[u].s].result # None) =>
                  /\ ureq'[u].ret = state[ureq[u].s].result
                  /\ upc'[u] = "idle"]_vars

\* Worker t is in a closure that calls submit_to and waits for the read lock
\* of the thread registry (executor.rs:147).
AwaitsRegistry(t) ==
    /\ Executing(t)
    /\ calls[wtask[t][1].id] # ""
    /\ RegistryWriteLocked

\* C30: join_all_workers is never joining, with the registry's write lock
\* held, a thread whose closure waits for the registry's read lock: in such
\* a state neither thread can ever take another step, and config never
\* returns.
ConfigTerminates ==
    apc = "join" => ~AwaitsRegistry(areq.pending[areq.cur])

\* C31: under fair scheduling a task submitted with submit / submit_after
\* whose record is in the global queue with all its dependencies completed
\* while a config call is in progress is eventually executed.
GlobalTasksSurvive ==
    \A id \in 0..(SurviveTasks - 1) :
        (/\ apc # "idle"
         /\ \E i \in InQueue(global_queue, id) :
                ready_to_execute(global_queue[i])) ~> Logged(id)

\* C32: a worker that has popped a ready record finds the task's box and
\* completion callback in the maps paired with the queue the record came
\* from: its own thread-local maps for its local queue, the global maps for
\* the global queue.
RecordImpliesBox ==
    \A t \in 1..nthreads :
        /\ (wpc[t] = "local_popped" /\ ready_to_execute(wtask[t][1])) =>
               /\ wtask[t][1].id \in local_storage[t]
               /\ wtask[t][1].id \in DOMAIN local_handles[t]
        /\ (wpc[t] = "global_popped" /\ ready_to_execute(wtask[t][1])) =>
               /\ wtask[t][1].id \in task_storage
               /\ wtask[t][1].id \in DOMAIN task_complete_handles

\* C33: when config has returned, every running worker thread that it
\* spawned is referenced by an entry of the registry, whatever names the
\* spec list produces, so the next join_all_workers reaches it.
NoUntrackedWorkers ==
    (apc = "idle" /\ prev > 0) =>
        \A t \in Running :
            t > prev => \E nm \in DOMAIN thread_registry : thread_registry[nm] = t

\* The records without dependencies in a queue, as their identifiers in
\* queue order (one caller's identifiers rise in submission order).
RECURSIVE PlainIds(_)
PlainIds(queue) ==
    IF queue = <<>> THEN <<>>
    ELSE IF Head(queue).dependencies = {}
         THEN <<Head(queue).id>> \o PlainIds(Tail(queue))
         ELSE PlainIds(Tail(queue))

\* C34: the records without dependencies that one caller's submit_to calls
\* pushed to a thread's local queue stand in it in submission order; only
\* that thread takes records out of the queue, one per pop, and when it
\* starts the closure of such a record every other one still queued was
\* submitted later.
FifoOnDedicatedThread ==
    /\ [](\A t \in 1..nthreads :
              LET ids == PlainIds(local_queue[t])
              IN  \A i, j \in 1..Len(ids) : i < j => ids[i] < ids[j])
    /\ [][\A t \in 1..nthreads :
              /\ Len(local_queue'[t]) < Len(local_queue[t]) =>
                     /\ wpc[t] = "local" /\ wpc'[t] = "local_popped"
                     /\ wtask[t] = None
                     /\ wtask'[t] = Some(Head(local_queue[t]))
                     /\ local_queue'[t] = Tail(local_queue[t])
              /\ (wpc[t] = "local_popped" /\ wtask[t][1].dependencies = {}) =>
                     /\ wpc'[t] \in {"local_popped", "exec_local"}
                     /\ \A i \in 1..Len(local_queue[t]) :
                            local_queue[t][i].dependencies = {} =>
                                wtask[t][1].id < local_queue[t][i].id]_vars

\* The dedicated thread runs the closure of the second of three tasks
\* without dependencies submitted to it: the first has run and the third
\* is still queued.
FifoOnDedicatedThreadWitness ==
    /\ wpc[1] = "exec_local"
    /\ wtask[1][1] = QueuedTask(1, {})
    /\ log = <<QueuedTask(0, {})>>
    /\ local_queue[1] = <<QueuedTask(2, {})>>
    /\ task_storage = {}

====
